---- MODULE Spec2Model ----
(***************************************************************************)
(* Model of the paginated fetch of the Docker Hub client                   *)
(* (src/src/lib.rs, `fetch`): one initial request, a fan-out of one        *)
(* spawned task per remaining page, `join_all`, and the reduction of the   *)
(* task outcomes into one `anyhow::Result<Vec<T>>`.                        *)
(*                                                                         *)
(* Items are numbered 1, 2, 3, ... in server order, so that the position   *)
(* of an item in the returned vector can be compared with its position in  *)
(* the listing.                                                            *)
(***************************************************************************)
EXTENDS Integers, Sequences, FiniteSets

\* one call of `fetch`
VARIABLES pc, srv, firstOutcome, firstStatus, tasks, arrival, requests, result
\* a caller that calls `fetch` again on the same resource
VARIABLES calls, prev

fetchVars ==
    <<pc, srv, firstOutcome, firstStatus, tasks, arrival, requests, result>>
callerVars == <<calls, prev>>

\* the terminal browser (src/src/app.rs) on top of the registry client
\* (src/src/registry.rs)
VARIABLES appPc, build, regBody, listed, items, selected, selBefore,
          itemEnter, info, shouldQuit, lastEvent

appVars ==
    <<appPc, build, regBody, listed, items, selected, selBefore, itemEnter,
      info, shouldQuit, lastEvent>>

vars == <<fetchVars, callerVars, appVars>>

----------------------------------------------------------------------------
(* Bounds of the model *)

\* largest `count` the server reports in the first envelope
MaxCount == 12
\* largest number of items in the first page's `results`
MaxPageSize == 5
\* largest number of pages ceil(count / len) of a listing
MaxPages == 4
\* largest number of elements of the `repositories` array of the registry
MaxRepos == 3
\* largest selected index followed on a list that has no item
MaxSel == 3

----------------------------------------------------------------------------
(* The server's answers *)

\* a query parameter that is not sent
Absent == 0

CeilDiv(a, b) == (a + b - 1) \div b

\* ApiResult<T>: count, next (present or not) and results, of which the
\* model keeps the length; `previous` is never read
Envelopes ==
    {e \in [count : 0..MaxCount, next : BOOLEAN, size : 0..MaxPageSize] :
        e.size = 0 \/ CeilDiv(e.count, e.size) <= MaxPages}

\* `results` of the first page: the first `size` items of the listing
FirstBatch(size) == [i \in 1..size |-> i]

Min(a, b) == IF a < b THEN a ELSE b
Max(a, b) == IF a > b THEN a ELSE b

\* `results` of page `page` for `page_size` items per page, of a listing of
\* `count` items: full pages, a shorter last page, nothing beyond it
ServerPage(count, page, page_size) ==
    [i \in 1..Max(0, Min(page_size, count - (page - 1) * page_size))
        |-> (page - 1) * page_size + i]

\* the status line of a response, one of each kind the code could tell
\* apart (success, not found, rate limited); a request that fails below
\* HTTP has none
Statuses == {200, 404, 429}
StatusesOf(outcome) == IF outcome = "neterr" THEN {Absent} ELSE Statuses

\* how `send().await`, `json::<Value>().await` and `from_value` can end
FirstFailures == {"neterr", "notjson", "badenvelope"}
FirstOutcomes == {"ok"} \cup FirstFailures
\* a spawned task can also fail to run to completion (JoinError)
TaskOutcomes == {"ok", "neterr", "notjson", "badenvelope", "joinerr"}

----------------------------------------------------------------------------
(* anyhow::Result<Vec<T>> *)

Ok(results) == [ok |-> TRUE, items |-> results, kind |-> "none", page |-> 0]
\* an error remembers the failure it wraps and the page whose request failed
\* (page 1 for the initial request)
Err(kind, page) == [ok |-> FALSE, items |-> <<>>, kind |-> kind, page |-> page]
NoResult == [ok |-> FALSE, items |-> <<>>, kind |-> "unset", page |-> 0]

----------------------------------------------------------------------------
(* The body of `fetch` *)

\* the query of the initial request: `client.get(url.clone())`, no `.query`
FirstRequestPaged == [page |-> 1, page_size |-> 10]
FirstRequest == [page |-> Absent, page_size |-> Absent]

\* `Ok(response) => match response.json::<Value>().await`: the status of the
\* response is never read, the body alone decides the output
OutputOf(status, outcome) == outcome

\* a task ends with its first response, whatever it is
AfterResponseRetry(outcome) == IF outcome = "ok" THEN "done" ELSE "spawned"
AfterResponse(outcome) == "done"

\* the `?` and the two `bail!` of the initial request
FirstFailsLenient(outcome) == outcome \in {"neterr", "notjson"}
FirstFails(outcome) == outcome \in FirstFailures

\* `if let Some(_) = result.next`
HasNextByCount(e) == e.count > e.size
HasNext(e) == e.next

\* `let pages = (result.count + page_size - 1) / page_size;`, page_size >= 1
PageCount(count, page_size) == (count + page_size - 1) \div page_size

\* `for page in 2..pages`: the range excludes `pages`
SpawnRange(pages) == {page \in 2..pages : page < pages}

\* the vector of spawned tasks, one per page of the range, in page order
SpawnTasks(count, page_size) ==
    LET range == SpawnRange(PageCount(count, page_size))
    IN  [i \in 1..Cardinality(range) |->
            [page |-> i + 1, page_size |-> page_size, st |-> "spawned",
             status |-> Absent, outcome |-> "pending", items |-> <<>>]]

\* `join_all(tasks).await` resolves when every task has finished ...
AllDone(ts) == \A i \in 1..Len(ts) : ts[i].st = "done"
AnyFailed(ts) ==
    \E i \in 1..Len(ts) : ts[i].st = "done" /\ ts[i].outcome # "ok"
JoinReadyEarly(ts) == AllDone(ts) \/ AnyFailed(ts)
JoinReady(ts) == AllDone(ts)

\* ... and yields the outputs in the order of the task vector
JoinAllArrival(ts, arr) == [i \in 1..Len(arr) |-> ts[arr[i]]]
JoinAll(ts, arr) == [i \in 1..Len(ts) |-> ts[i]]

\* one `match future` of the loop over the joined outputs
MatchFuture(results, fut) ==
    IF fut.outcome = "ok"
    THEN Ok(results \o fut.items)
    ELSE Err(fut.outcome, fut.page)

RECURSIVE ForFuturesSkipFailed(_, _, _)
ForFuturesSkipFailed(futures, i, results) ==
    IF i > Len(futures)
    THEN Ok(results)
    ELSE LET r == MatchFuture(results, futures[i])
         IN  ForFuturesSkipFailed(futures, i + 1,
                                  IF r.ok THEN r.items ELSE results)

RECURSIVE ForFuturesLastFailure(_, _, _)
ForFuturesLastFailure(futures, i, results) ==
    IF i > Len(futures)
    THEN Ok(results)
    ELSE LET r == MatchFuture(results, futures[i])
             rest == ForFuturesLastFailure(futures, i + 1,
                                           IF r.ok THEN r.items ELSE results)
         IN  IF r.ok THEN rest ELSE IF rest.ok THEN r ELSE rest

\* `for future in futures { match future ... }` and the final `Ok(results)`:
\* the first non-success output leaves the loop with `bail!`
RECURSIVE ForFutures(_, _, _)
ForFutures(futures, i, results) ==
    IF i > Len(futures)
    THEN Ok(results)
    ELSE LET r == MatchFuture(results, futures[i])
         IN  IF r.ok THEN ForFutures(futures, i + 1, r.items) ELSE r

----------------------------------------------------------------------------
(* The registry client and the browser *)

\* `list_state.selected()` is None
NoSel == -1

\* the elements of a JSON array: repository names, or a value that is not a
\* string (a number, null, an object)
Names == {"ollama", "library"}
NonString == "<not a string>"
Elements == Names \cup {NonString}

RECURSIVE ArraysUpTo(_)
ArraysUpTo(n) ==
    IF n = 0
    THEN {<<>>}
    ELSE LET shorter == ArraysUpTo(n - 1)
         IN  shorter \cup {Append(a, e) : a \in {b \in shorter : Len(b) = n - 1},
                                          e \in Elements}

\* what `GET v2/_catalog` can bring: no response, a body that is not JSON,
\* JSON without a `repositories` field, with one that is not an array, or
\* with an array
RegBodies ==
    {[kind |-> k, elems |-> <<>>] :
        k \in {"neterr", "notjson", "missing", "nonarray"}}
    \cup {[kind |-> "array", elems |-> a] : a \in ArraysUpTo(MaxRepos)}

\* Result<Vec<String>, Box<dyn Error>>
RegOk(names) == [ok |-> TRUE, names |-> names, kind |-> "none"]
RegErr(kind) == [ok |-> FALSE, names |-> <<>>, kind |-> kind]

IsString(v) == v # NonString

\* DockerRegistry::list_repositories (list_tags reads `tags` the same way):
\* `?` on send and json, `as_array().ok_or(..)?`, then
\* `filter_map(|v| v.as_str().map(String::from))`
ListStrings(body) ==
    IF body.kind \in {"neterr", "notjson"}
    THEN RegErr(body.kind)
    ELSE IF body.kind # "array"
    THEN RegErr("invalid")
    ELSE RegOk(SelectSeq(body.elems, IsString))

\* `.unwrap_or(vec![])`
UnwrapOrEmpty(res) == IF res.ok THEN res.names ELSE <<>>

\* the outcome of a selection step: the new selection, or a panic
Selected(i) == [panic |-> FALSE, sel |-> i]
Panicked == [panic |-> TRUE, sel |-> NoSel]

\* `self.containers.items.len() - 1` on usize: at length 0 a debug build
\* panics on the overflow, a release build wraps to usize::MAX
\* (represented by a value above every index the model follows)
LenMinusOne(len, bld) ==
    IF len >= 1
    THEN Selected(len - 1)
    ELSE IF bld = "debug" THEN Panicked ELSE Selected(MaxSel + 1)

\* App::select_next
SelectNextWrap(sel, len, bld) ==
    IF sel = NoSel
    THEN Selected(0)
    ELSE LET last == LenMinusOne(len, bld)
         IN  IF last.panic THEN Panicked
             ELSE IF sel >= last.sel THEN Selected(0) ELSE Selected(sel + 1)
SelectNext(sel, len, bld) ==
    IF sel = NoSel
    THEN Selected(0)
    ELSE LET last == LenMinusOne(len, bld)
         IN  IF last.panic THEN Panicked
             ELSE IF sel >= last.sel THEN Selected(sel) ELSE Selected(sel + 1)

\* App::select_previous
SelectPrevious(sel) ==
    IF sel = NoSel THEN 0 ELSE IF sel = 0 THEN 0 ELSE sel - 1

\* `items.get(i)` is Some
Exists(sel, len) == sel # NoSel /\ sel < len

\* `StatefulWidget::render(list, .., &mut self.containers.list_state)`: the
\* list widget of the library is handed the selection mutably; depending on
\* its version and on the area it leaves it alone, or resets it to none on
\* an empty list and to the last item when it is out of range
RenderList(sel, len) ==
    {sel} \cup {IF len = 0 THEN NoSel
                ELSE IF sel # NoSel /\ sel >= len THEN len - 1 ELSE sel}

\* the events `event::read()` can return: a key press of q/Esc, j/Down,
\* k/Up, Enter or another key, a key event that is not a press, and an
\* event that is not a key
Events == {"quit", "down", "up", "enter", "otherkey", "release", "resize"}

\* `key.kind == KeyEventKind::Press` and `KeyCode::Char('q') | KeyCode::Esc`
QuitKeyAnyKind(ev) == ev \in {"quit", "release"}
QuitKey(ev) == ev = "quit"

----------------------------------------------------------------------------
(* Initial state and actions *)

\* no call of `fetch` is under way
FetchIdle ==
    /\ pc = "start"
    /\ srv = [count |-> 0, next |-> FALSE, size |-> 0]
    /\ firstOutcome = "pending"
    /\ firstStatus = Absent
    /\ tasks = <<>>
    /\ arrival = <<>>
    /\ requests = <<>>
    /\ result = NoResult
    /\ calls = 1
    /\ prev = NoResult

\* no browser session is open
AppIdle ==
    /\ appPc = "idle"
    /\ build = "debug"
    /\ regBody = [kind |-> "neterr", elems |-> <<>>]
    /\ listed = RegErr("unset")
    /\ items = <<>>
    /\ selected = NoSel
    /\ selBefore = NoSel
    /\ itemEnter = FALSE
    /\ info = {}
    /\ shouldQuit = FALSE
    /\ lastEvent = "none"

Init ==
    /\ pc = "start"
    /\ srv \in Envelopes
    /\ firstOutcome = "pending"
    /\ firstStatus = Absent
    /\ tasks = <<>>
    /\ arrival = <<>>
    /\ requests = <<>>
    /\ result = NoResult
    /\ calls = 1
    /\ prev = NoResult
    /\ AppIdle

\* `client.get(url.clone()).send()`: the initial request carries no query
SendFirst ==
    /\ pc = "start"
    /\ pc' = "first"
    /\ requests' = Append(requests, FirstRequest)
    /\ UNCHANGED <<srv, firstOutcome, firstStatus, tasks, arrival, result>>
    /\ UNCHANGED <<callerVars, appVars>>

\* the initial request is never answered: the client has no timeout
FirstSilent ==
    /\ pc = "first"
    /\ firstOutcome = "pending"
    /\ firstOutcome' = "silent"
    /\ UNCHANGED <<pc, srv, firstStatus, tasks, arrival, requests, result>>
    /\ UNCHANGED <<callerVars, appVars>>

\* the initial request ends; on success `fetch` runs up to `join_all`
FirstResponse ==
    /\ pc = "first"
    /\ firstOutcome = "pending"
    /\ \E body \in FirstOutcomes : \E status \in StatusesOf(body) :
        LET outcome == OutputOf(status, body) IN
        /\ firstOutcome' = outcome
        /\ firstStatus' = status
        /\ IF FirstFails(outcome)
           THEN /\ pc' = "done"
                /\ result' = Err(outcome, 1)
                /\ tasks' = tasks
           ELSE IF ~HasNext(srv)
           THEN /\ pc' = "done"
                /\ result' = Ok(FirstBatch(srv.size))
                /\ tasks' = tasks
           ELSE IF srv.size = 0
           THEN \* division by zero at `/ page_size`
                /\ pc' = "panic"
                /\ result' = result
                /\ tasks' = tasks
           ELSE /\ pc' = "join"
                /\ result' = result
                /\ tasks' = SpawnTasks(srv.count, srv.size)
    /\ UNCHANGED <<srv, arrival, requests>>
    /\ UNCHANGED <<callerVars, appVars>>

\* a spawned task sends its request with `page` and `page_size`
TaskSend(i) ==
    /\ i \in 1..Len(tasks)
    /\ tasks[i].st = "spawned"
    /\ tasks' = [tasks EXCEPT ![i].st = "sent"]
    /\ requests' = Append(requests, [page |-> tasks[i].page,
                                     page_size |-> tasks[i].page_size])
    /\ UNCHANGED <<pc, srv, firstOutcome, firstStatus, arrival, result>>
    /\ UNCHANGED <<callerVars, appVars>>

\* the request of a task is never answered: the client has no timeout
TaskSilent(i) ==
    /\ i \in 1..Len(tasks)
    /\ tasks[i].st = "sent"
    /\ tasks' = [tasks EXCEPT ![i].st = "silent"]
    /\ UNCHANGED <<pc, srv, firstOutcome, firstStatus, arrival, requests,
                   result>>
    /\ UNCHANGED <<callerVars, appVars>>

\* the request of a task ends and the task finishes with its output
TaskRespond(i) ==
    /\ i \in 1..Len(tasks)
    /\ tasks[i].st = "sent"
    /\ \E body \in TaskOutcomes \ {"joinerr"} :
       \E status \in StatusesOf(body) :
        LET outcome == OutputOf(status, body) IN
        tasks' = [tasks EXCEPT
            ![i].st = AfterResponse(outcome),
            ![i].status = status,
            ![i].outcome = outcome,
            ![i].items = IF outcome = "ok"
                         THEN ServerPage(srv.count, tasks[i].page,
                                         tasks[i].page_size)
                         ELSE <<>>]
    /\ arrival' = Append(arrival, i)
    /\ UNCHANGED <<pc, srv, firstOutcome, firstStatus, requests, result>>
    /\ UNCHANGED <<callerVars, appVars>>

\* a task does not run to completion: its JoinHandle yields a JoinError
TaskAbort(i) ==
    /\ i \in 1..Len(tasks)
    /\ tasks[i].st \in {"spawned", "sent"}
    /\ tasks' = [tasks EXCEPT ![i].st = "done", ![i].outcome = "joinerr"]
    /\ arrival' = Append(arrival, i)
    /\ UNCHANGED <<pc, srv, firstOutcome, firstStatus, requests, result>>
    /\ UNCHANGED <<callerVars, appVars>>

\* `join_all` resolves; the outputs are merged or the first failure returned
JoinReturn ==
    /\ pc = "join"
    /\ JoinReady(tasks)
    /\ result' = ForFutures(JoinAll(tasks, arrival), 1, FirstBatch(srv.size))
    /\ pc' = "done"
    /\ UNCHANGED <<srv, firstOutcome, firstStatus, tasks, arrival, requests>>
    /\ UNCHANGED <<callerVars, appVars>>

Next ==
    \/ SendFirst
    \/ FirstSilent
    \/ FirstResponse
    \/ \E i \in 1..MaxPages : TaskSend(i)
    \/ \E i \in 1..MaxPages : TaskSilent(i)
    \/ \E i \in 1..MaxPages : TaskRespond(i)
    \/ \E i \in 1..MaxPages : TaskAbort(i)
    \/ JoinReturn

Spec == Init /\ [][Next]_vars

\* the runtime runs every task that can make progress and a server that
\* answers does so in the end; a request gone silent stays so
LiveSpec == Init /\ [][Next]_vars /\ WF_vars(Next)

\* the caller, having got a listing, calls `fetch` once more on the same,
\* unchanged resource
CallAgain ==
    /\ pc = "done"
    /\ result.ok
    /\ calls = 1
    /\ calls' = 2
    /\ prev' = result
    /\ pc' = "start"
    /\ firstOutcome' = "pending"
    /\ firstStatus' = Absent
    /\ tasks' = <<>>
    /\ arrival' = <<>>
    /\ requests' = <<>>
    /\ result' = NoResult
    /\ UNCHANGED <<srv, appVars>>

NextTwice == Next \/ CallAgain

SpecTwice == Init /\ [][NextTwice]_vars

----------------------------------------------------------------------------
(* The browser session: main, App::new and App::run *)

InitApp ==
    /\ FetchIdle
    /\ appPc = "new"
    /\ build \in {"debug", "release"}
    /\ regBody \in RegBodies
    /\ listed = RegErr("unset")
    /\ items = <<>>
    /\ selected = NoSel
    /\ selBefore = NoSel
    /\ itemEnter = FALSE
    /\ info = {}
    /\ shouldQuit = FALSE
    /\ lastEvent = "none"

\* App::new: the listing, or nothing if it failed, with the first row
\* selected and no `info` yet
AppNew ==
    /\ appPc = "new"
    /\ listed' = ListStrings(regBody)
    /\ items' = UnwrapOrEmpty(ListStrings(regBody))
    /\ selected' = 0
    /\ itemEnter' = FALSE
    /\ info' = {}
    /\ shouldQuit' = FALSE
    /\ appPc' = "draw"
    /\ UNCHANGED <<build, regBody, selBefore, lastEvent>>
    /\ UNCHANGED <<fetchVars, callerVars>>

\* `terminal.draw(..)` of App::run, that is `render`: the list, then the
\* detail pane with `v.info.clone().unwrap()`
Draw ==
    /\ appPc = "draw"
    /\ \E sel \in RenderList(selected, Len(items)) :
        /\ selected' = sel
        /\ appPc' = IF itemEnter /\ Exists(sel, Len(items)) /\ sel \notin info
                    THEN "unwrap_panic"
                    ELSE "event"
    /\ UNCHANGED <<build, regBody, listed, items, selBefore, itemEnter, info,
                   shouldQuit, lastEvent>>
    /\ UNCHANGED <<fetchVars, callerVars>>

\* `terminal.draw(..)?` or `event::read()?` fails: `run` returns the error
IoError ==
    /\ appPc \in {"draw", "event"}
    /\ appPc' = "failed"
    /\ UNCHANGED <<build, regBody, listed, items, selected, selBefore,
                   itemEnter, info, shouldQuit, lastEvent>>
    /\ UNCHANGED <<fetchVars, callerVars>>

\* `self.handle_event(&event::read()?)` and the loop test that follows
HandleEvent ==
    /\ appPc = "event"
    /\ \E ev \in Events :
        LET next == SelectNext(selected, Len(items), build) IN
        /\ ev = "down" /\ ~next.panic => next.sel <= MaxSel
        /\ lastEvent' = ev
        /\ selBefore' = selected
        /\ selected' = IF ev = "down" /\ ~next.panic THEN next.sel
                       ELSE IF ev = "up" THEN SelectPrevious(selected)
                       ELSE selected
        /\ shouldQuit' = (shouldQuit \/ QuitKey(ev))
        \* App::display_info
        /\ itemEnter' = IF ev = "enter" THEN Exists(selected, Len(items))
                        ELSE itemEnter
        /\ info' = IF ev = "enter" /\ Exists(selected, Len(items))
                   THEN info \cup {selected}
                   ELSE info
        \* `while !self.should_quit`
        /\ appPc' = IF ev = "down" /\ next.panic THEN "overflow_panic"
                    ELSE IF shouldQuit' THEN "exit"
                    ELSE "draw"
    /\ UNCHANGED <<build, regBody, listed, items>>
    /\ UNCHANGED <<fetchVars, callerVars>>

NextApp ==
    \/ AppNew
    \/ Draw
    \/ IoError
    \/ HandleEvent

SpecApp == InitApp /\ [][NextApp]_vars

----------------------------------------------------------------------------
(* Shape of the state *)

TypeOK ==
    /\ pc \in {"start", "first", "join", "done", "panic"}
    /\ srv \in Envelopes
    /\ firstOutcome \in FirstOutcomes \cup {"pending", "silent"}
    /\ firstStatus \in Statuses \cup {Absent}
    /\ calls \in 1..2
    /\ Len(tasks) <= MaxPages
    /\ \A i \in 1..Len(tasks) :
        /\ tasks[i].st \in {"spawned", "sent", "silent", "done"}
        /\ tasks[i].outcome \in TaskOutcomes \cup {"pending"}
    /\ Len(arrival) <= Len(tasks)
    /\ result.ok \in BOOLEAN
    /\ appPc \in {"idle", "new", "draw", "event", "exit", "failed",
                  "overflow_panic", "unwrap_panic"}
    /\ selected \in {NoSel} \cup 0..MaxSel
    /\ info \subseteq 0..(Len(items) - 1)
    /\ Len(items) <= MaxRepos

----------------------------------------------------------------------------
(* Properties of `fetch` *)

\* the initial request succeeded, a next cursor is present and the first
\* page is not empty: the fan-out has taken place
FannedOut ==
    /\ firstOutcome = "ok"
    /\ srv.next
    /\ srv.size >= 1
    /\ pc \in {"join", "done"}

TaskPages == {tasks[i].page : i \in 1..Len(tasks)}

\* C1: after a successful first page with a next cursor, count C and S >= 1
\* items, one task is dispatched for every page 2 .. ceil(C/S), each with
\* page_size = S.
C1_AllRemainingPagesRequested ==
    FannedOut =>
        /\ TaskPages = 2..CeilDiv(srv.count, srv.size)
        /\ Len(tasks) = Cardinality(2..CeilDiv(srv.count, srv.size))
        /\ \A i \in 1..Len(tasks) : tasks[i].page_size = srv.size

\* the server sends S items per page, a possibly shorter last page, and a
\* next cursor exactly when the first page is not the whole listing
HonestServer ==
    /\ srv.size >= 1
    /\ srv.size <= srv.count
    /\ srv.next = (srv.count > srv.size)

\* C2: on full success against such a server the returned sequence has
\* length C and holds every item of the listing, pages 1 .. ceil(C/S).
C2_ResultIsWholeListing ==
    (HonestServer /\ pc = "done" /\ result.ok) =>
        /\ Len(result.items) = srv.count
        /\ result.items = [i \in 1..srv.count |-> i]

\* the items of pages lo .. hi in ascending page order
RECURSIVE ConcatPages(_, _)
ConcatPages(lo, hi) ==
    IF lo > hi
    THEN <<>>
    ELSE ServerPage(srv.count, lo, srv.size) \o ConcatPages(lo + 1, hi)

\* C3: whatever the completion order of the tasks, a successful result is
\* the first page followed by the fetched pages in ascending page order.
C3_MergedInPageOrder ==
    (FannedOut /\ pc = "done" /\ result.ok) =>
        result.items = FirstBatch(srv.size) \o ConcatPages(2, Len(tasks) + 1)

\* two pages were fetched and the higher page finished first
C3_Witness ==
    /\ FannedOut /\ pc = "done" /\ result.ok
    /\ Len(tasks) >= 2
    /\ arrival[1] > arrival[2]
    /\ Len(tasks[1].items) >= 1 /\ Len(tasks[2].items) >= 1

\* C4: a success is returned only if every dispatched task succeeded; a
\* failure carries no items of the pages that did succeed.
C4_AllOrNothing ==
    (FannedOut /\ pc = "done") =>
        /\ result.ok <=> \A i \in 1..Len(tasks) : tasks[i].outcome = "ok"
        /\ ~result.ok => result.items = <<>>

\* one page succeeded with items, another failed, and an error came back
C4_Witness ==
    /\ FannedOut /\ pc = "done" /\ ~result.ok
    /\ \E i \in 1..Len(tasks) :
        tasks[i].outcome = "ok" /\ Len(tasks[i].items) >= 1
    /\ \E i \in 1..Len(tasks) : tasks[i].outcome \in {"neterr", "joinerr"}

\* C5 (as claimed): once a task has reported a failure, `fetch` can return
\* without any other task completing first.
C5_ReturnsWithoutWaiting ==
    (pc = "join" /\ AnyFailed(tasks)) => ENABLED JoinReturn

\* C5 (amended): `fetch` returns, success or failure, only after every
\* spawned task has finished; none is in flight when it returns.
C5_ReturnsAfterAllTasks ==
    pc = "done" => \A i \in 1..Len(tasks) : tasks[i].st = "done"

\* a failure was the first output to arrive, the other tasks finished after
\* it, and only then the error came back
C5_Witness ==
    /\ pc = "done" /\ ~result.ok
    /\ Len(tasks) >= 2
    /\ Len(arrival) = Len(tasks)
    /\ tasks[arrival[1]].outcome # "ok"

FailedTasks == {i \in 1..Len(tasks) : tasks[i].outcome \notin {"ok", "pending"}}

\* the failed task whose failure was reported first
FirstReported ==
    arrival[CHOOSE k \in 1..Len(arrival) :
                /\ arrival[k] \in FailedTasks
                /\ \A j \in 1..(k - 1) : arrival[j] \notin FailedTasks]

\* the failed task with the lowest page index
LowestFailed ==
    CHOOSE i \in FailedTasks : \A j \in FailedTasks : tasks[i].page <= tasks[j].page

\* C6 (as claimed): the error returned is the one of the task that reported
\* its failure first.
C6_FirstReportedFailure ==
    (FannedOut /\ pc = "done" /\ FailedTasks # {}) =>
        /\ ~result.ok
        /\ result.page = tasks[FirstReported].page
        /\ result.kind = tasks[FirstReported].outcome

\* C6 (amended): the error returned is the one of the failed task with the
\* lowest page index, whatever the order of the reports.
C6_LowestPageFailure ==
    (FannedOut /\ pc = "done" /\ FailedTasks # {}) =>
        /\ ~result.ok
        /\ result.page = tasks[LowestFailed].page
        /\ result.kind = tasks[LowestFailed].outcome

\* two tasks failed, the one with the higher page reported first
C6_Witness ==
    /\ FannedOut /\ pc = "done" /\ ~result.ok
    /\ Cardinality(FailedTasks) >= 2
    /\ tasks[FirstReported].page > tasks[LowestFailed].page

\* C7: if the initial request fails, the call fails with that error, no
\* task is ever spawned and no further request is sent.
C7_FirstFailureEndsCall ==
    firstOutcome \in FirstFailures =>
        /\ pc = "done"
        /\ result = Err(firstOutcome, 1)
        /\ tasks = <<>>
        /\ Len(requests) = 1

\* the body of the first answer was JSON but not a page envelope, although
\* the server had more pages to offer
C7_Witness ==
    /\ firstOutcome = "badenvelope"
    /\ pc = "done" /\ ~result.ok
    /\ srv.next /\ srv.size >= 1 /\ CeilDiv(srv.count, srv.size) >= 3

\* C8: without a next cursor the result is exactly the first page, no task
\* is spawned and no further request is sent, whatever the count is.
C8_NoNextReturnsFirstPage ==
    (firstOutcome = "ok" /\ ~srv.next) =>
        /\ pc = "done"
        /\ result = Ok(FirstBatch(srv.size))
        /\ tasks = <<>>
        /\ Len(requests) = 1

\* no next cursor although the count announces three pages or more
C8_Witness ==
    /\ firstOutcome = "ok" /\ ~srv.next
    /\ pc = "done" /\ result.ok
    /\ srv.size >= 1 /\ CeilDiv(srv.count, srv.size) >= 3
    /\ Len(result.items) = srv.size

\* C9: with count 0 the result is the empty sequence and only the first
\* request is sent, for every next cursor and first batch.
C9_ZeroCountIsEmpty ==
    (firstOutcome = "ok" /\ srv.count = 0) =>
        /\ pc # "panic"
        /\ pc = "done" => result = Ok(<<>>)
        /\ Len(requests) = 1

\* C10: a next cursor with an empty first batch gives a decode error; the
\* page count is never computed by dividing by zero.
C10_EmptyBatchIsDecodeError ==
    (firstOutcome = "ok" /\ srv.next /\ srv.size = 0) =>
        /\ pc # "panic"
        /\ pc = "done" => (~result.ok /\ result.kind = "badenvelope")

\* C11: the HTTP status decides the outcome of a page fetch: only a 200/201
\* response is merged as a page, and a 429 on page 2 fails the call with a
\* rate-limited error.
C11_StatusDecidesOutcome ==
    (FannedOut /\ pc = "done") =>
        /\ result.ok =>
            /\ firstStatus \in {200, 201}
            /\ \A i \in 1..Len(tasks) : tasks[i].status \in {200, 201}
        /\ (Len(tasks) >= 1 /\ tasks[1].status = 429) =>
            (~result.ok /\ result.kind = "ratelimited" /\ result.page = 2)

\* C12: every call ends, also when the server never answers a request.
C12_EventuallyReturns == <>(pc \in {"done", "panic"})

\* the page requests sent and not answered yet
InFlight ==
    Cardinality({i \in 1..Len(tasks) : tasks[i].st \in {"sent", "silent"}})

\* C13: for every limit L, also one below the number of remaining pages,
\* at most L page requests are in flight at a time.
C13_InFlightBounded ==
    \A L \in 1..MaxPages : Len(tasks) > L => InFlight <= L

\* C16: a second call on the unchanged resource returns the same sequence
\* as the first, whatever the interleavings of the two calls.
C16_SecondCallSameSequence ==
    (calls = 2 /\ pc = "done" /\ result.ok) =>
        (prev.ok /\ result.items = prev.items)

\* the second call fetched two non-empty pages, the higher one first
C16_Witness ==
    /\ calls = 2 /\ pc = "done" /\ result.ok /\ prev.ok
    /\ Len(tasks) >= 2
    /\ arrival = <<2, 1>>
    /\ Len(tasks[1].items) >= 1 /\ Len(tasks[2].items) >= 1

RequestsFor(page) == {k \in 1..Len(requests) : requests[k].page = page}

\* the pages of the listing as the first envelope announces them
AnnouncedPages ==
    IF srv.size = 0 THEN 1 ELSE Max(1, CeilDiv(srv.count, srv.size))

\* C18: no page is requested twice, also after a failure; a call sends at
\* most as many requests as there are pages, a page fetch exactly one.
C18_NoRetries ==
    /\ \A k, l \in 1..Len(requests) :
        k # l => requests[k].page # requests[l].page
    /\ Len(requests) <= AnnouncedPages
    /\ \A i \in 1..Len(tasks) :
        (tasks[i].st \in {"sent", "silent"} \/ tasks[i].status # Absent
            \/ tasks[i].outcome = "neterr")
        => Cardinality(RequestsFor(tasks[i].page)) = 1

\* every page request was sent, one failed below HTTP, the call failed
C18_Witness ==
    /\ pc = "done" /\ ~result.ok
    /\ Len(tasks) >= 2
    /\ Len(requests) = 1 + Len(tasks)
    /\ \E i \in 1..Len(tasks) : tasks[i].outcome = "neterr"

\* C19 (as claimed): the initial request carries page = 1 and
\* page_size = 10.
C19_FirstRequestPaged ==
    requests # <<>> => requests[1] = [page |-> 1, page_size |-> 10]

\* C19 (amended): the initial request carries neither `page` nor
\* `page_size`; it is the only request before the fan-out, and every later
\* request is for a page from 2 on.
C19_FirstRequestBare ==
    /\ requests # <<>> =>
        (requests[1].page = Absent /\ requests[1].page_size = Absent)
    /\ pc \in {"start", "first"} => (Len(requests) <= 1 /\ tasks = <<>>)
    /\ \A k \in 2..Len(requests) :
        requests[k].page >= 2 /\ requests[k].page_size = srv.size

\* the fan-out has started and a page request followed the initial one
C19_Witness ==
    /\ pc = "join"
    /\ Len(requests) >= 2
    /\ requests[1].page = Absent
    /\ requests[2].page > 1

----------------------------------------------------------------------------
(* Properties of the browser and of the registry client *)

ValidIndex(sel) == sel \in 0..(Len(items) - 1)

C15_FailedListingIsHarmless ==
    (appPc \notin {"idle", "new"} /\ ~listed.ok) =>
        /\ items = <<>>
        /\ appPc \notin {"overflow_panic", "unwrap_panic"}
        /\ selected \in {NoSel, 0}

\* C17: a listing is returned only for an array of strings, and then it is
\* that array; any other body is an error.
C17_SchemaMismatchIsError ==
    (appPc \notin {"idle", "new"} /\ listed.ok) =>
        /\ regBody.kind = "array"
        /\ \A k \in 1..Len(regBody.elems) : IsString(regBody.elems[k])
        /\ listed.names = regBody.elems

\* C20: while the detail pane is on and the selection is an existing item,
\* that item has its `info`, so `render` does not panic on `unwrap`.
C20_DetailPaneHasInfo ==
    /\ (itemEnter /\ Exists(selected, Len(items))) => selected \in info
    /\ appPc # "unwrap_panic"

----------------------------------------------------------------------------
(* Properties added for the outcome of `fetch` and the end of `run` *)

\* the items of the tasks 1 .. n of the task vector, in that order
RECURSIVE ItemsUpTo(_)
ItemsUpTo(n) == IF n = 0 THEN <<>> ELSE ItemsUpTo(n - 1) \o tasks[n].items

\* C21: the result of `fetch` is decided by the outcomes assigned to the
\* pages alone, not by the order in which the tasks finish: all tasks have
\* finished when it returns, it succeeds with the pages in page order if no
\* task failed, and otherwise reports the failed task of the lowest page.
C21_OutcomeIgnoresInterleaving ==
    (FannedOut /\ pc = "done") =>
        /\ Len(arrival) = Len(tasks)
        /\ \A i \in 1..Len(tasks) : tasks[i].st = "done"
        /\ result =
            IF FailedTasks = {}
            THEN Ok(FirstBatch(srv.size) \o ItemsUpTo(Len(tasks)))
            ELSE Err(tasks[LowestFailed].outcome, tasks[LowestFailed].page)

\* two tasks failed in different ways, the higher page first, and the
\* failure of the lower page came back
C21_Witness ==
    /\ FannedOut /\ pc = "done"
    /\ Len(tasks) >= 2
    /\ arrival = <<2, 1>>
    /\ tasks[1].outcome = "notjson"
    /\ tasks[2].outcome = "neterr"
    /\ result.kind = "notjson" /\ result.page = tasks[1].page

\* a step of `handle_event` with the loop test that follows it
Handled == appPc = "event" /\ appPc' \in {"draw", "exit", "overflow_panic"}

\* C22: `should_quit` is set only by a press of q or Esc and never reset;
\* once it is set nothing further is drawn, read or handled; a key event
\* that is not a press and an event that is not a key change nothing.
C22_QuitAndIgnoredEvents ==
    [][/\ (~shouldQuit /\ shouldQuit') => (Handled /\ lastEvent' = "quit")
       /\ shouldQuit => UNCHANGED appVars
       /\ (Handled /\ lastEvent' = "quit") => (shouldQuit' /\ appPc' = "exit")
       /\ (Handled /\ lastEvent' \in {"release", "resize"}) =>
            /\ UNCHANGED <<selected, itemEnter, items, info, shouldQuit>>
            /\ appPc' = "draw"]_vars

\* the session was used (an item is open, the selection has moved) and a
\* press of q ended the loop
C22_Witness ==
    /\ appPc = "exit"
    /\ shouldQuit
    /\ lastEvent = "quit"
    /\ itemEnter
    /\ selected >= 1

====
